---- MODULE Spec2Model ----
(***************************************************************************)
(* Model of application/database/db.py: the Standard_collection store of   *)
(* CRE and Standard rows, their InternalLinks / Links relations and the    *)
(* in-memory networkx mirror (cre_graph) used for cycle checks and path    *)
(* queries.                                                                *)
(*                                                                         *)
(* Every handler is an operator from the state before the call (a record   *)
(* of the tables and the mirror) and the call's arguments to the state     *)
(* after it, the branch it took, what the caller observes (the returned    *)
(* value or the raised exception) and the highest log level emitted.  The  *)
(* actions apply these operators to the current state.                     *)
(***************************************************************************)
EXTENDS Integers, FiniteSets, Sequences, TLC

VARIABLES cres, standards, internal_links, links, graph_nodes, graph_edges,
          in_flight

vars == <<cres, standards, internal_links, links, graph_nodes, graph_edges,
          in_flight>>

-----------------------------------------------------------------------------
(* Bounds *)

\* most InternalLinks plus Links rows a run inserts
MaxLinks == 2

-----------------------------------------------------------------------------
(* Values *)

\* Python None in a string-valued attribute, and None as a row id
None == "<None>"
NoId == 0

\* cre_defs.LinkTypes members handed to the link upserts
LinkTypes == {"Contains", "Related"}

\* LinkTypes.<member>.value: the string a link row stores
value(type) ==
    CASE type = "Same" -> "SAME"
      [] type = "Contains" -> "Contains"
      [] type = "PartOf" -> "Is Part Of"
      [] type = "Related" -> "Related"
      [] type = "LinkedTo" -> "Linked To"

\* LinkTypes.from_str: the member a stored string stands for
from_str(name) ==
    CASE name = "SAME" -> "Same"
      [] name = "Contains" -> "Contains"
      [] name = "Is Part Of" -> "PartOf"
      [] name = "Related" -> "Related"
      [] name = "Linked To" -> "LinkedTo"

\* one character in lower case
LowerChar(c) ==
    CASE c = "A" -> "a" [] c = "B" -> "b" [] c = "C" -> "c" [] c = "D" -> "d"
      [] c = "E" -> "e" [] c = "N" -> "n" [] c = "R" -> "r" [] c = "S" -> "s"
      [] c = "T" -> "t" [] c = "X" -> "x"
      [] OTHER -> c

RECURSIVE Lower(_)
\* str.lower() / func.lower(), over the letters that occur in the model
Lower(s) == IF s = "" THEN "" ELSE LowerChar(Head(s)) \o Lower(Tail(s))

\* Python truthiness of an Optional[str]
Truthy(s) == s # "" /\ s # None

\* the character classes of the search patterns
Digits == {"0", "1", "2", "3", "4", "5", "6", "7", "8", "9"}
WordChars ==
    Digits \cup {"_", "a", "b", "c", "d", "e", "h", "n", "p", "q", "r", "s", "t", "x", "y"}
Whitespace == {" ", "\t", "\n"}

\* the character at position i of a string ("" past its end)
Ch(s, i) == IF i >= 1 /\ i <= Len(s) THEN SubSeq(s, i, i) ELSE ""

\* \d, \w, [^\s] and . for one character (IGNORECASE folds the letters)
IsDigit(c) == c \in Digits
IsWord(c) == c # "" /\ LowerChar(c) \in WordChars
IsNonSpace(c) == c # "" /\ c \notin Whitespace
IsAny(c) == c # "" /\ c # "\n"
IsSep(c) == c \in {":", " "}

\* a literal of a pattern found at position i, letters folded
LiteralAt(s, i, literal) ==
    /\ i >= 1 /\ i + Len(literal) - 1 <= Len(s)
    /\ Lower(SubSeq(s, i, i + Len(literal) - 1)) = Lower(literal)

RECURSIVE DigitsEnd(_, _)
\* the position after the longest run of digits that starts at i
DigitsEnd(s, i) == IF IsDigit(Ch(s, i)) THEN DigitsEnd(s, i + 1) ELSE i

RECURSIVE WordEnd(_, _)
WordEnd(s, i) == IF IsWord(Ch(s, i)) THEN WordEnd(s, i + 1) ELSE i

RECURSIVE NonSpaceEnd(_, _)
NonSpaceEnd(s, i) == IF IsNonSpace(Ch(s, i)) THEN NonSpaceEnd(s, i + 1) ELSE i

RECURSIVE AnyEnd(_, _)
AnyEnd(s, i) == IF IsAny(Ch(s, i)) THEN AnyEnd(s, i + 1) ELSE i

\* re.search: the leftmost position at which a pattern matches, 0 for none
Leftmost(positions) ==
    IF positions = {} THEN 0
    ELSE CHOOSE i \in positions : \A j \in positions : i <= j

RECURSIVE Like(_, _)
\* SQL LIKE: % stands for any run of characters, _ for one; a NULL matches
\* nothing (letters are compared as they are)
Like(v, pattern) ==
    IF v = None THEN FALSE
    ELSE IF pattern = "" THEN v = ""
    ELSE IF Head(pattern) = "%"
         THEN Like(v, Tail(pattern)) \/ (v # "" /\ Like(Tail(v), pattern))
    ELSE IF v = "" THEN FALSE
    ELSE (Head(pattern) = "_" \/ Head(pattern) = Head(v)) /\ Like(Tail(v), Tail(pattern))

\* cre_defs.CRE documents handed to add_cre (id is the external id)
CreDocs ==
    { [name |-> "a", id |-> "1", description |-> "x"],
      [name |-> "a", id |-> "2", description |-> "x"],
      [name |-> "b", id |-> "",  description |-> "x"] }

\* cre_defs.Standard documents handed to add_standard
StdDocs ==
    { [name |-> "s", section |-> "1", subsection |-> "", version |-> "", hyperlink |-> ""],
      [name |-> "t", section |-> "1", subsection |-> "", version |-> "", hyperlink |-> ""] }

\* CRE / Standard objects that are not attached to a row (id is None), as a
\* caller may hand them to the link upserts
DetachedCres ==
    { [id |-> NoId, name |-> "a", external_id |-> None, description |-> "x"],
      [id |-> NoId, name |-> "b", external_id |-> "",   description |-> "x"],
      [id |-> NoId, name |-> "a", external_id |-> None, description |-> "q"] }

DetachedStandards ==
    { [id |-> NoId, name |-> "s", section |-> "1", subsection |-> "", version |-> ""],
      [id |-> NoId, name |-> "q", section |-> "1", subsection |-> "", version |-> ""] }

\* Orders in which the store may hand back the rows of a query without ORDER BY
Picks == {"lo", "hi"}

\* The threads that call the link upserts of one collection object.  A caller
\* is in flight between the cycle check of a call and its INSERT; in_flight
\* holds, per caller, the link it is about to insert (or nothing).
Callers == {"t1", "t2"}
Idle == [caller \in Callers |-> {}]

-----------------------------------------------------------------------------
(* The state as one value *)

St ==
    [ cres |-> cres, standards |-> standards,
      internal_links |-> internal_links, links |-> links,
      graph_nodes |-> graph_nodes, graph_edges |-> graph_edges ]

\* mirror node keys f"CRE: {id}" and f"Standard: {id}"
CreNode(id) == <<"CRE", id>>
\* the Standard key built with the prefix of the CRE keys
StdNode_colliding(id) == <<"CRE", id>>

StdNode(id) == <<"Standard", id>>

\* a row's primary key as one number: id, or a link row's pair of ids
RowKey(r) ==
    IF "id" \in DOMAIN r THEN r.id
    ELSE IF "group" \in DOMAIN r THEN r.group * 100 + r.cre
    ELSE r.cre * 100 + r.standard

RECURSIVE all(_)
\* Query.all(): the rows as a list, here in primary-key order
all(rows) ==
    IF rows = {} THEN <<>>
    ELSE LET r == CHOOSE r \in rows : \A q \in rows : RowKey(r) <= RowKey(q)
         IN  <<r>> \o all(rows \ {r})

\* Query.first(): no row, or the first row in the order the store picked

first(rows, pick) ==
    IF rows = {} THEN {}
    ELSE IF pick = "lo"
         THEN {CHOOSE r \in rows : \A q \in rows : RowKey(r) <= RowKey(q)}
         ELSE {CHOOSE r \in rows : \A q \in rows : RowKey(r) >= RowKey(q)}

\* the order of a query's rows is only drawn where a query of the call can
\* match several rows
Several(rows) == Cardinality(rows) > 1

PicksOf(ambiguous) == IF ambiguous THEN Picks ELSE {"lo"}

TheRow(s) == CHOOSE r \in s : TRUE

\* what a handler hands back: the state after, the branch taken, what the
\* caller observes (returned value or raised exception) and the log level
Outcome(st, branch, ret, log) ==
    [st |-> st, branch |-> branch, ret |-> ret, log |-> log]

-----------------------------------------------------------------------------
(* Entity upserts *)

\* an INSERT of the document as a new row, whatever the table holds
add_cre_inserting(st, cre, pick) ==
    LET id == Cardinality(st.cres) + 1
        row == [id |-> id, name |-> cre.name, external_id |-> cre.id,
                description |-> cre.description]
    IN  Outcome([st EXCEPT !.cres = st.cres \cup {row},
                           !.graph_nodes = st.graph_nodes \cup {CreNode(id)}],
                "insert", "entry", "debug")

add_cre(st, cre, pick) ==
    LET query == {r \in st.cres : Lower(r.name) = Lower(cre.name)}
        entry == IF Truthy(cre.id)
                 THEN first({r \in query : r.external_id = cre.id}, pick)
                 ELSE first({r \in query :
                               Lower(r.description) = Lower(cre.description)}, pick)
    IN  IF entry # {}
        THEN LET e == TheRow(entry) IN
             IF ~Truthy(e.external_id) /\ e.external_id # cre.id
             THEN Outcome(st, "id_mismatch", "ValueError", "debug")
             ELSE LET e1 == IF ~Truthy(e.external_id)
                            THEN [e EXCEPT !.external_id = cre.id] ELSE e
                      e2 == IF ~Truthy(e1.description)
                            THEN [e1 EXCEPT !.description = cre.description] ELSE e1
                  IN Outcome([st EXCEPT !.cres = (st.cres \ {e}) \cup {e2}],
                             "knew", "entry", "debug")
        ELSE IF \E r \in st.cres : r.name = cre.name /\ r.external_id = cre.id
             THEN \* unique_cre_fields rejects the INSERT at commit
                  Outcome(st, "insert", "IntegrityError", "debug")
             ELSE LET id == Cardinality(st.cres) + 1
                      row == [id |-> id, name |-> cre.name,
                              external_id |-> cre.id,
                              description |-> cre.description]
                  IN Outcome([st EXCEPT !.cres = st.cres \cup {row},
                                        !.graph_nodes = st.graph_nodes \cup {CreNode(id)}],
                             "insert", "entry", "debug")

add_standard(st, standard, pick) ==
    LET entry == first({r \in st.standards :
                          /\ Lower(r.name) = Lower(standard.name)
                          /\ Lower(r.section) = Lower(standard.section)
                          /\ Lower(r.subsection) = Lower(standard.subsection)
                          /\ Lower(r.version) = Lower(standard.version)}, pick)
    IN  IF entry # {}
        THEN LET e == TheRow(entry) IN
             Outcome([st EXCEPT !.standards =
                         (st.standards \ {e}) \cup {[e EXCEPT !.link = standard.hyperlink]}],
                     "knew", "entry", "debug")
        ELSE IF \E r \in st.standards :
                   /\ r.name = standard.name
                   /\ r.section = standard.section
                   /\ r.subsection = standard.subsection
             THEN \* standard_section rejects the INSERT at commit
                  Outcome(st, "insert", "IntegrityError", "debug")
             ELSE LET id == Cardinality(st.standards) + 1
                      row == [id |-> id, name |-> standard.name,
                              section |-> standard.section,
                              subsection |-> standard.subsection,
                              version |-> standard.version,
                              link |-> standard.hyperlink]
                  IN Outcome([st EXCEPT !.standards = st.standards \cup {row},
                                        !.graph_nodes = st.graph_nodes \cup {StdNode(id)}],
                             "insert", "entry", "debug")

-----------------------------------------------------------------------------
(* The networkx mirror *)

\* one relational step longer: R plus the composition of R with itself
Compose(R) ==
    R \cup {<<p[1][1], p[2][2]>> : p \in {q \in R \X R : q[1][2] = q[2][1]}}

RECURSIVE Closure(_)
\* transitive closure of a set of <<from, to>> pairs
Closure(R) == LET R2 == Compose(R) IN IF R2 = R THEN R ELSE Closure(R2)

\* c is the edge set of one simple directed cycle (a self-loop included)
IsCycle(c) ==
    /\ c # {}
    /\ \A e \in c : Cardinality({f \in c : f[1] = e[2]}) = 1
    /\ \A e \in c : Cardinality({f \in c : f[2] = e[1]}) = 1
    /\ \A e, f \in c : <<e[1], f[1]>> \in Closure(c)

\* nx.find_cycle(G): the edges of a cycle of G, or {} where networkx raises
\* NetworkXNoCycle
find_cycle(edges) ==
    LET tc == Closure(edges)
        on_cycle == {e \in edges : <<e[2], e[1]>> \in tc \/ e[1] = e[2]}
    IN  IF on_cycle = {} THEN {}
        ELSE CHOOSE c \in SUBSET on_cycle : IsCycle(c)

\* DiGraph.add_edge(u, v): the edge, and both end nodes where missing
add_edge(st, u, v) ==
    [st EXCEPT !.graph_nodes = st.graph_nodes \cup {u, v},
               !.graph_edges = st.graph_edges \cup {<<u, v>>}]

\* __load_cre_graph: the mirror built from the persisted link rows
load_cre_graph(st) ==
    [st EXCEPT
       !.graph_nodes =
            {CreNode(il.group) : il \in st.internal_links}
            \cup {CreNode(il.cre) : il \in st.internal_links}
            \cup {StdNode(lnk.standard) : lnk \in st.links}
            \cup {CreNode(lnk.cre) : lnk \in st.links},
       !.graph_edges =
            {<<CreNode(il.group), CreNode(il.cre)>> : il \in st.internal_links}
            \cup {<<CreNode(lnk.cre), StdNode(lnk.standard)>> : lnk \in st.links}]

\* only the live mirror is searched: the candidate edge is never tried
introduces_cycle_untried(st, node_from, node_to) ==
    LET existing_cycle == find_cycle(st.graph_edges) IN
    [raises |-> existing_cycle # {}, cycle |-> {}]

\* the live mirror is not searched first: only the trial copy is
introduces_cycle_unguarded(st, node_from, node_to) ==
    LET new_graph == add_edge(st, node_from, node_to)
    IN  [raises |-> FALSE, cycle |-> find_cycle(new_graph.graph_edges)]

\* __introduces_cycle: raises ValueError where the live mirror already has a
\* cycle, else returns the cycle the candidate edge closes in a scratch copy
\* of the mirror, or {} (False) where it closes none
introduces_cycle(st, node_from, node_to) ==
    LET existing_cycle == find_cycle(st.graph_edges) IN
    IF existing_cycle # {}
    THEN [raises |-> TRUE, cycle |-> existing_cycle]
    ELSE LET new_graph == add_edge(st, node_from, node_to)
         IN  [raises |-> FALSE, cycle |-> find_cycle(new_graph.graph_edges)]

-----------------------------------------------------------------------------
(* Link upserts *)

\* the description or external id is left out of the filter
cre_query_by_name(st, cre) == {r \in st.cres : r.name = cre.name}

\* the rows add_internal_link's query for a CRE object without id matches:
\* by name and description (no external id given) or by name and external id
cre_query(st, cre) ==
    IF cre.external_id = None
    THEN {r \in st.cres : r.name = cre.name /\ r.description = cre.description}
    ELSE {r \in st.cres : r.name = cre.name /\ r.external_id = cre.external_id}

\* the CRE row a CRE object stands for in add_internal_link: itself when it
\* carries an id, else the first row of the query
resolve_cre(st, cre, pick) ==
    IF cre.id # NoId THEN {cre} ELSE first(cre_query(st, cre), pick)

\* the trial edge set is left in the live mirror instead of a scratch copy
skip_cycle_trial_kept(st, cycle) ==
    Outcome([st EXCEPT !.graph_edges = st.graph_edges \cup cycle],
            "cycle", "None", "warning")

\* the refusal is raised to the caller instead of logged
skip_cycle_raised(st, cycle) == Outcome(st, "cycle", "ValueError", "warning")

\* the else branch of "if not cycle": a warning that names the cycle, nothing
\* is written and the handler returns None like any other call
skip_cycle(st, cycle) == Outcome(st, "cycle", "None", "warning")

\* the new type never reaches the row
retype_lost(rows, entry, type) == rows

\* the row is deleted to be written anew, and the new row is not written
retype_deleting(rows, entry, type) == rows \ {entry}

\* entry.type = type.value; commit
retype(rows, entry, type) ==
    (rows \ {entry}) \cup {[entry EXCEPT !.type = value(type)]}

\* session.add(InternalLinks(...)); commit; cre_graph.add_edge(group, cre)
insert_internal_link(st, gid, cid, type) ==
    add_edge([st EXCEPT !.internal_links = st.internal_links
                 \cup {[type |-> value(type), cre |-> cid, group |-> gid]}],
             CreNode(gid), CreNode(cid))

\* the row is written and the live mirror is left behind
insert_link_unmirrored(st, cid, sid, type) ==
    [st EXCEPT !.links = st.links
        \cup {[type |-> value(type), cre |-> cid, standard |-> sid]}]

\* session.add(Links(...)); cre_graph.add_edge(cre, standard); commit
insert_link(st, cid, sid, type) ==
    add_edge([st EXCEPT !.links = st.links
                 \cup {[type |-> value(type), cre |-> cid, standard |-> sid]}],
             CreNode(cid), StdNode(sid))

\* the lookup of the existing row in the orientation of the call only
add_internal_link_one_way(st, group, cre, type, pick) ==
    LET c == resolve_cre(st, cre, pick)
        g == resolve_cre(st, group, pick)
    IN  IF c = {} \/ g = {}
        THEN Outcome(st, "not_found", "None", "fatal")
        ELSE
        LET cid == TheRow(c).id
            gid == TheRow(g).id
            entry == first({l \in st.internal_links :
                              l.cre = cid /\ l.group = gid}, pick)
        IN  IF entry # {}
            THEN Outcome([st EXCEPT !.internal_links =
                             retype(st.internal_links, TheRow(entry), type)],
                         "retyped", "None", "debug")
            ELSE
            LET cycle == introduces_cycle(st, CreNode(gid), CreNode(cid))
            IN  IF cycle.raises
                THEN Outcome(st, "corrupt_graph", "ValueError", "fatal")
                ELSE IF cycle.cycle = {}
                THEN Outcome(insert_internal_link(st, gid, cid, type),
                             "added", "None", "debug")
                ELSE skip_cycle(st, cycle.cycle)

add_internal_link(st, group, cre, type, pick) ==
    LET c == resolve_cre(st, cre, pick)
        g == resolve_cre(st, group, pick)
    IN  IF c = {} \/ g = {}
        THEN Outcome(st, "not_found", "None", "fatal")
        ELSE
        LET cid == TheRow(c).id
            gid == TheRow(g).id
            entry == first({l \in st.internal_links :
                              \/ l.cre = gid /\ l.group = cid
                              \/ l.cre = cid /\ l.group = gid}, pick)
        IN  IF entry # {}
            THEN Outcome([st EXCEPT !.internal_links =
                             retype(st.internal_links, TheRow(entry), type)],
                         "retyped", "None", "debug")
            ELSE
            LET cycle == introduces_cycle(st, CreNode(gid), CreNode(cid))
            IN  IF cycle.raises
                THEN Outcome(st, "corrupt_graph", "ValueError", "fatal")
                ELSE IF cycle.cycle = {}
                THEN Outcome(insert_internal_link(st, gid, cid, type),
                             "added", "None", "debug")
                ELSE skip_cycle(st, cycle.cycle)

add_link(st, cre, standard, type, pick) ==
    LET c == IF cre.id # NoId THEN {cre}
             ELSE first({r \in st.cres : r.name = cre.name}, pick)
        s == IF standard.id # NoId THEN {standard}
             ELSE first({r \in st.standards :
                           /\ r.name = standard.name
                           /\ r.section = standard.section
                           /\ r.subsection = standard.subsection
                           /\ r.version = standard.version}, pick)
    IN  IF c = {} \/ s = {}
        THEN \* cre.id / standard.id on None
             Outcome(st, "not_found", "AttributeError", "none")
        ELSE
        LET cid == TheRow(c).id
            sid == TheRow(s).id
            entry == first({l \in st.links : l.cre = cid /\ l.standard = sid}, pick)
        IN  IF entry # {}
            THEN Outcome([st EXCEPT !.links = retype(st.links, TheRow(entry), type)],
                         "retyped", "None", "debug")
            ELSE
            LET cycle == introduces_cycle(st, CreNode(cid), StdNode(sid))
            IN  IF cycle.raises
                THEN Outcome(st, "corrupt_graph", "ValueError", "fatal")
                ELSE IF cycle.cycle = {}
                THEN Outcome(insert_link(st, cid, sid, type),
                             "added", "None", "debug")
                ELSE skip_cycle(st, cycle.cycle)

-----------------------------------------------------------------------------
(* Upserts whose session.commit() may raise *)

\* session.commit() raises (the database is locked or gone): the pending rows
\* are not stored, and the mirror keeps what was applied to it before the commit
commit_raises(st, mirrored) ==
    Outcome([st EXCEPT !.graph_nodes = mirrored.graph_nodes,
                       !.graph_edges = mirrored.graph_edges],
            "commit_failed", "OperationalError", "none")

\* session.add(entry); session.commit(); cre_graph.add_node(...)
\* (the branch that knows the row does not commit)
add_cre_committing(st, cre, pick, commits) ==
    LET r == add_cre(st, cre, pick)
    IN  IF commits \/ r.branch # "insert" \/ r.ret # "entry"
        THEN r
        ELSE commit_raises(st, st)

\* entry.link = ...; session.commit()   and
\* session.add(entry); session.commit(); cre_graph.add_node(...)
add_standard_committing(st, standard, pick, commits) ==
    LET r == add_standard(st, standard, pick)
    IN  IF commits \/ r.ret # "entry"
        THEN r
        ELSE commit_raises(st, st)

\* entry.type = ...; session.commit()   and
\* session.add(InternalLinks(...)); session.commit(); cre_graph.add_edge(...)
add_internal_link_committing(st, group, cre, type, pick, commits) ==
    LET r == add_internal_link(st, group, cre, type, pick)
    IN  IF commits \/ r.branch \notin {"retyped", "added"}
        THEN r
        ELSE commit_raises(st, st)

\* entry.type = ...; session.commit()   and
\* session.add(Links(...)); cre_graph.add_edge(...); ...; session.commit()
add_link_committing(st, cre, standard, type, pick, commits) ==
    LET r == add_link(st, cre, standard, type, pick)
    IN  IF commits \/ r.branch \notin {"retyped", "added"}
        THEN r
        ELSE IF r.branch = "retyped"
        THEN commit_raises(st, st)
        ELSE commit_raises(st, r.st)

-----------------------------------------------------------------------------
(* Documents and reads *)

CREfromDB(dbcre) ==
    [doctype |-> "CRE", name |-> dbcre.name, description |-> dbcre.description,
     id |-> dbcre.external_id]

StandardFromDB(dbstandard) ==
    [doctype |-> "Standard", name |-> dbstandard.name,
     section |-> dbstandard.section, subsection |-> dbstandard.subsection,
     hyperlink |-> dbstandard.link, version |-> dbstandard.version]

\* cre_defs.Link(ltype, document)
Link(ltype, document) == [ltype |-> ltype, document |-> document]

\* Document.add_link: the link goes to the end of the document's link list
doc_add_link(doc, link) == [doc EXCEPT !.links = Append(doc.links, link)]

RowById(rows, id) == CHOOSE r \in rows : r.id = id

\* the stored type is shown as it is, also from the member's side
displayed_link_unflipped(st, il, dbcre) ==
    IF il.cre = dbcre.id
    THEN Link(from_str(il.type), CREfromDB(RowById(st.cres, il.group)))
    ELSE Link(from_str(il.type), CREfromDB(RowById(st.cres, il.cre)))

\* get_CREs, the body of "for il in internal_links": the link shown on
\* dbcre's document for the row il
displayed_link(st, il, dbcre) ==
    IF il.cre = dbcre.id
    THEN Link(IF from_str(il.type) = "Contains" THEN "PartOf" ELSE from_str(il.type),
              CREfromDB(RowById(st.cres, il.group)))
    ELSE Link(from_str(il.type), CREfromDB(RowById(st.cres, il.cre)))

RECURSIVE add_links(_, _, _, _)
\* the loops of get_CREs over a list of link rows, each adding one link
add_links(st, doc, dbcre, rows) ==
    IF rows = <<>> THEN doc
    ELSE LET l == Head(rows)
             link == IF "standard" \in DOMAIN l
                     THEN Link(from_str(l.type),
                               StandardFromDB(RowById(st.standards, l.standard)))
                     ELSE displayed_link(st, l, dbcre)
         IN  add_links(st, doc_add_link(doc, link), dbcre, Tail(rows))

\* what a read hands back: the state after it, the returned value or raised
\* exception, the log level, the documents and the number of store queries
\* it executed
ReadOutcome(st, ret, log, docs, queries) ==
    [st |-> st, ret |-> ret, log |-> log, docs |-> docs, queries |-> queries]

\* a query refused only after it was sent to the store
rejected_after_query(st, ret, log) == ReadOutcome(st, ret, log, <<>>, 1)

\* a query without any filter value is refused before a query is executed
rejected(st, ret, log) == ReadOutcome(st, ret, log, <<>>, 0)

\* one filter of a query: no condition for an empty value, else equality,
\* or LIKE when partial; fold is func.lower() on column and value
Matches(column, val, partial, fold) ==
    IF ~Truthy(val) THEN TRUE
    ELSE LET c == IF fold /\ column # None THEN Lower(column) ELSE column
             v == IF fold THEN Lower(val) ELSE val
         IN  IF partial THEN Like(c, v) ELSE c = v

RECURSIVE SumLinks(_)
\* the per-document queries of get_CREs / get_standards: one or two for the
\* document's link rows and one for each linked row
SumLinks(docs) ==
    IF docs = <<>> THEN 0 ELSE Len(Head(docs).links) + SumLinks(Tail(docs))

\* get_CREs without include_only: None (a logged error without filter, a
\* warning without match) or the documents of the rows that match every
\* filter given, each with its links
get_CREs(st, external_id, name, description, partial) ==
    IF ~Truthy(external_id) /\ ~Truthy(name) /\ ~Truthy(description)
    THEN rejected(st, "None", "error")
    ELSE
    LET dbcres == {r \in st.cres :
                     /\ Matches(r.external_id, external_id, partial, FALSE)
                     /\ Matches(r.name, name, partial, TRUE)
                     /\ Matches(r.description, description, partial, TRUE)}
        doc(dbcre) ==
            LET linked_standards == {ls \in st.links : ls.cre = dbcre.id}
                internal == {il \in st.internal_links :
                               il.cre = dbcre.id \/ il.group = dbcre.id}
                cre == [cre |-> CREfromDB(dbcre), links |-> <<>>]
            IN  add_links(st, add_links(st, cre, dbcre, all(linked_standards)),
                          dbcre, all(internal))
        rows == all(dbcres)
        docs == [i \in 1..Len(rows) |-> doc(rows[i])]
    IN  IF dbcres = {}
        THEN ReadOutcome(st, "None", "warning", <<>>, 1)
        ELSE ReadOutcome(st, "list", "none", docs, 1 + 2 * Len(docs) + SumLinks(docs))

\* __get_standards_query__: the rows the query built from the filters selects
get_standards_query(st, name, section, subsection, link, version, partial) ==
    {r \in st.standards :
       /\ Matches(r.name, name, partial, TRUE)
       /\ Matches(r.section, section, partial, TRUE)
       /\ Matches(r.subsection, subsection, partial, TRUE)
       /\ Matches(r.link, link, partial, FALSE)
       /\ Matches(r.version, version, partial, FALSE)}

RECURSIVE add_cre_links(_, _, _)
\* get_standards, "for dbcre_link in linked_cres": one link per Links row
add_cre_links(st, doc, rows) ==
    IF rows = <<>> THEN doc
    ELSE add_cre_links(st,
             doc_add_link(doc, Link(from_str(Head(rows).type),
                                    CREfromDB(RowById(st.cres, Head(rows).cre)))),
             Tail(rows))

\* get_standards without include_only: ValueError out of
\* __get_standards_query__ when no filter has a value, None with a warning
\* when no row matches, else the documents of the rows with their links
get_standards(st, name, section, subsection, link, version, partial) ==
    IF /\ ~Truthy(name) /\ ~Truthy(section) /\ ~Truthy(subsection)
       /\ ~Truthy(link) /\ ~Truthy(version)
    THEN rejected(st, "ValueError", "none")
    ELSE
    LET dbstands == all(get_standards_query(st, name, section, subsection, link,
                                            version, partial))
        doc(dbstand) ==
            add_cre_links(st, [standard |-> StandardFromDB(dbstand), links |-> <<>>],
                          all({l \in st.links : l.standard = dbstand.id}))
        docs == [i \in 1..Len(dbstands) |-> doc(dbstands[i])]
    IN  IF dbstands = <<>>
        THEN ReadOutcome(st, "None", "warning", <<>>, 1)
        ELSE ReadOutcome(st, "list", "none", docs, 1 + Len(docs) + SumLinks(docs))

\* find_cres_of_cre: the CRE is looked up by its name alone and the id row
\* found, (id,), is handed to the InternalLinks query as it is; binds tells
\* whether the driver takes the row for the id it holds or refuses the
\* parameter
find_cres_of_cre(st, cre, pick, binds) ==
    LET cre_id == first({r \in st.cres : r.name = cre.name}, pick)
        found == {l \in st.internal_links : l.cre = TheRow(cre_id).id}
        rows == all(found)
    IN  IF cre_id = {} THEN ReadOutcome(st, "None", "none", <<>>, 2)
        ELSE IF ~binds THEN ReadOutcome(st, "InterfaceError", "none", <<>>, 2)
        ELSE IF found = {} THEN ReadOutcome(st, "None", "none", <<>>, 2)
        ELSE ReadOutcome(st, "list", "none",
                         [i \in 1..Len(rows) |-> RowById(st.cres, rows[i].group)],
                         2 + Len(rows))

\* find_cres_of_standard: a Standard without id is looked up by name,
\* section, subsection and version; the CREs of the Links rows to it, or None
find_cres_of_standard(st, standard, pick) ==
    LET entry == IF standard.id # NoId THEN {standard}
                 ELSE first({r \in st.standards :
                               /\ r.name = standard.name
                               /\ r.section = standard.section
                               /\ r.subsection = standard.subsection
                               /\ r.version = standard.version}, pick)
        rows == all({l \in st.links : l.standard = TheRow(entry).id})
        lookup == IF standard.id # NoId THEN 0 ELSE 1
    IN  IF entry = {} THEN ReadOutcome(st, "None", "none", <<>>, lookup)
        ELSE IF rows = <<>> THEN ReadOutcome(st, "None", "none", <<>>, lookup + 1)
        ELSE ReadOutcome(st, "list", "none",
                         [i \in 1..Len(rows) |-> RowById(st.cres, rows[i].cre)],
                         lookup + 1 + Len(rows))

\* Graph.to_undirected(): every edge both ways
to_undirected(edges) == edges \cup {<<e[2], e[1]>> : e \in edges}

\* has_path over the live mirror made undirected in place
find_path_between_standards_in_place(st, standard_source_id, standard_destination_id) ==
    LET source == StdNode(standard_source_id)
        target == StdNode(standard_destination_id)
        undirected == [st EXCEPT !.graph_edges = to_undirected(st.graph_edges)]
    IN  IF source \notin st.graph_nodes \/ target \notin st.graph_nodes
        THEN [st |-> undirected, ret |-> "NodeNotFound", res |-> FALSE]
        ELSE [st |-> undirected, ret |-> "bool",
              res |-> \/ source = target
                      \/ <<source, target>> \in Closure(undirected.graph_edges)]

\* find_path_between_standards: nx.has_path over an undirected copy of the
\* mirror; networkx raises NodeNotFound for an end node the graph does not
\* hold
find_path_between_standards(st, standard_source_id, standard_destination_id) ==
    LET source == StdNode(standard_source_id)
        target == StdNode(standard_destination_id)
    IN  IF source \notin st.graph_nodes \/ target \notin st.graph_nodes
        THEN [st |-> st, ret |-> "NodeNotFound", res |-> FALSE]
        ELSE [st |-> st, ret |-> "bool",
              res |-> \/ source = target
                      \/ <<source, target>> \in Closure(to_undirected(st.graph_edges))]

RECURSIVE after_paths(_, _)
\* the state the path queries of gap_analysis leave, asked in order for the
\* pairs of Standard ids until one raises
after_paths(st, pairs) ==
    IF pairs = <<>> THEN st
    ELSE LET r == find_path_between_standards(st, Head(pairs)[1], Head(pairs)[2])
         IN  IF r.ret = "NodeNotFound" THEN r.st ELSE after_paths(r.st, Tail(pairs))

RECURSIVE rows_named(_, _)
\* gap_analysis, first loop: the Standard rows of each name, in list order
rows_named(st, names) ==
    IF names = <<>> THEN <<>>
    ELSE all({r \in st.standards : r.name = Head(names)}) \o rows_named(st, Tail(names))

\* each row is compared with the rows after it in the list only
gap_analysis_later_rows(st, names) ==
    LET dbstands == rows_named(st, names)
        n == Len(dbstands)
        path(i, j) == find_path_between_standards(st, dbstands[i].id, dbstands[j].id)
        others(i) == {j \in (i + 1)..n : dbstands[j].id # dbstands[i].id}
        linked(i) == SelectSeq([j \in 1..n |-> j],
                               LAMBDA j : j \in others(i) /\ path(i, j).res)
        doc(i) == [standard |-> StandardFromDB(dbstands[i]),
                   links |-> [k \in 1..Len(linked(i)) |->
                                Link("LinkedTo", StandardFromDB(dbstands[linked(i)[k]]))]]
        pairs == SelectSeq([k \in 1..(n * n) |->
                              <<dbstands[((k - 1) \div n) + 1].id,
                                dbstands[((k - 1) % n) + 1].id>>],
                           LAMBDA pair : pair[1] # pair[2])
        after == after_paths(st, pairs)
    IN  IF \E i \in 1..n : \E j \in others(i) : path(i, j).ret = "NodeNotFound"
        THEN [st |-> after, ret |-> "NodeNotFound", docs |-> <<>>]
        ELSE [st |-> after, ret |-> "list", docs |-> [i \in 1..n |-> doc(i)]]

\* gap_analysis: one document per row found, linked (LinkedTo) to every
\* other row found that a path connects it to; an exception of
\* find_path_between_standards ends the call
gap_analysis(st, names) ==
    LET dbstands == rows_named(st, names)
        n == Len(dbstands)
        path(i, j) == find_path_between_standards(st, dbstands[i].id, dbstands[j].id)
        others(i) == {j \in 1..n : dbstands[j].id # dbstands[i].id}
        linked(i) == SelectSeq([j \in 1..n |-> j],
                               LAMBDA j : j \in others(i) /\ path(i, j).res)
        doc(i) == [standard |-> StandardFromDB(dbstands[i]),
                   links |-> [k \in 1..Len(linked(i)) |->
                                Link("LinkedTo", StandardFromDB(dbstands[linked(i)[k]]))]]
        pairs == SelectSeq([k \in 1..(n * n) |->
                              <<dbstands[((k - 1) \div n) + 1].id,
                                dbstands[((k - 1) % n) + 1].id>>],
                           LAMBDA pair : pair[1] # pair[2])
        after == after_paths(st, pairs)
    IN  IF \E i \in 1..n : \E j \in others(i) : path(i, j).ret = "NodeNotFound"
        THEN [st |-> after, ret |-> "NodeNotFound", docs |-> <<>>]
        ELSE [st |-> after, ret |-> "list", docs |-> [i \in 1..n |-> doc(i)]]

-----------------------------------------------------------------------------
(* Export *)

\* docs[key] = doc on the dict of exported documents
put(docs, key, doc) ==
    [k \in DOMAIN docs \cup {key} |-> IF k = key THEN doc ELSE docs[k]]

\* docs[name] if name in docs.keys() else CREfromDB(dbcre)
doc_of(docs, dbcre) ==
    IF dbcre.name \in DOMAIN docs THEN docs[dbcre.name]
    ELSE [cre |-> CREfromDB(dbcre), links |-> <<>>]

\* export, "then handle cre2 -> cre1 link": the link added to the member's
\* document, of the row's own type
export_member_link(st, link) ==
    Link(from_str(link.type), CREfromDB(RowById(st.cres, link.group)))

RECURSIVE export_internal_links(_, _, _)
\* export, the loop over __get_internal_links(): the group's document gets a
\* link to the member, the member's document a link to the group; documents
\* are kept by CRE name
export_internal_links(st, docs, rows) ==
    IF rows = <<>> THEN docs
    ELSE LET link == Head(rows)
             group == RowById(st.cres, link.group)
             cre == RowById(st.cres, link.cre)
             grp == doc_add_link(doc_of(docs, group),
                                 Link(from_str(link.type), CREfromDB(cre)))
             with_group == put(docs, group.name, grp)
             c == doc_add_link(doc_of(with_group, cre), export_member_link(st, link))
         IN  export_internal_links(st, put(with_group, cre.name, c), Tail(rows))

RECURSIVE export_external_links(_, _, _)
\* export, the loop over __get_external_links()
export_external_links(st, docs, rows) ==
    IF rows = <<>> THEN docs
    ELSE LET link == Head(rows)
             internal_doc == RowById(st.cres, link.cre)
             standard == RowById(st.standards, link.standard)
             cr == doc_of(docs, internal_doc)
             linked == IF standard.name # ""
                       THEN doc_add_link(cr, Link(from_str(link.type),
                                                  StandardFromDB(standard)))
                       ELSE cr
         IN  export_external_links(st, put(docs, internal_doc.name, linked),
                                   Tail(rows))

RECURSIVE export_unlinked_standards(_, _)
\* export, the loop over __get_unlinked_standards()
export_unlinked_standards(docs, rows) ==
    IF rows = <<>> THEN docs
    ELSE LET ustand == Head(rows)
             key == ustand.name \o "-" \o ustand.section \o ":"
                      \o ustand.subsection \o ":" \o ustand.version
         IN  export_unlinked_standards(
                 put(docs, key, [standard |-> StandardFromDB(ustand), links |-> <<>>]),
                 Tail(rows))

\* export: the dict of documents written to disk and handed back
export(st) ==
    LET internal == export_internal_links(st, [k \in {} |-> k], all(st.internal_links))
        external == export_external_links(st, internal, all(st.links))
        unlinked == {r \in st.standards : \A l \in st.links : l.standard # r.id}
    IN  [st |-> st, ret |-> "list",
         docs |-> export_unlinked_standards(external, all(unlinked))]

-----------------------------------------------------------------------------
(* Text search: the patterns *)

\* r"CRE(:| )(?P<id>\d+-\d+)": both runs of digits are the longest there are
cre_id_search(text) ==
    LET MatchesAt(i) ==
            /\ LiteralAt(text, i, "CRE") /\ IsSep(Ch(text, i + 3))
            /\ DigitsEnd(text, i + 4) > i + 4
            /\ Ch(text, DigitsEnd(text, i + 4)) = "-"
            /\ DigitsEnd(text, DigitsEnd(text, i + 4) + 1) > DigitsEnd(text, i + 4) + 1
        at == Leftmost({i \in 1..Len(text) : MatchesAt(i)})
    IN  IF at = 0 THEN [matched |-> FALSE, id |-> None]
        ELSE [matched |-> TRUE,
              id |-> SubSeq(text, at + 4,
                            DigitsEnd(text, DigitsEnd(text, at + 4) + 1) - 1)]

\* r"\d\d\d-\d\d\d"
cre_naked_id_search(text) ==
    LET MatchesAt(i) ==
            /\ \A k \in {0, 1, 2, 4, 5, 6} : IsDigit(Ch(text, i + k))
            /\ Ch(text, i + 3) = "-"
        at == Leftmost({i \in 1..Len(text) : MatchesAt(i)})
    IN  IF at = 0 THEN [matched |-> FALSE, group |-> None]
        ELSE [matched |-> TRUE, group |-> SubSeq(text, at, at + 6)]

\* r"CRE(:| )(?P<name>\w+)"
cre_name_search(text) ==
    LET MatchesAt(i) ==
            /\ LiteralAt(text, i, "CRE") /\ IsSep(Ch(text, i + 3))
            /\ IsWord(Ch(text, i + 4))
        at == Leftmost({i \in 1..Len(text) : MatchesAt(i)})
    IN  IF at = 0 THEN [matched |-> FALSE, name |-> None]
        ELSE [matched |-> TRUE, name |-> SubSeq(text, at + 4, WordEnd(text, at + 4) - 1)]

\* one optional group "((:| )(?P<val>.+))?" tried at position at: the value
\* it captures (None when it does not take part) and where the match goes on
any_group(text, at) ==
    IF IsSep(Ch(text, at)) /\ IsAny(Ch(text, at + 1))
    THEN [val |-> SubSeq(text, at + 1, AnyEnd(text, at + 1) - 1),
          end |-> AnyEnd(text, at + 1)]
    ELSE [val |-> None, end |-> at]

\* r"Standard((:| )(?P<link>https?://[^\s]+))?((:| )(?P<val1>\w+))?
\*   ((:| )(?P<val2>.+))?((:| )(?P<val3>.+))?": every group is optional and
\* greedy, so each takes the most it can at the place the one before it ended
standard_search(text) ==
    LET MatchesAt(i) == LiteralAt(text, i, "Standard")
        at == Leftmost({i \in 1..Len(text) : MatchesAt(i)})
        p0 == at + 8
        scheme == IF LiteralAt(text, p0 + 1, "https") THEN p0 + 6 ELSE p0 + 5
        has_link == /\ IsSep(Ch(text, p0)) /\ LiteralAt(text, p0 + 1, "http")
                    /\ LiteralAt(text, scheme, "://")
                    /\ IsNonSpace(Ch(text, scheme + 3))
        p1 == IF has_link THEN NonSpaceEnd(text, scheme + 3) ELSE p0
        has_val1 == IsSep(Ch(text, p1)) /\ IsWord(Ch(text, p1 + 1))
        p2 == IF has_val1 THEN WordEnd(text, p1 + 1) ELSE p1
        g2 == any_group(text, p2)
        g3 == any_group(text, g2.end)
    IN  IF at = 0
        THEN [matched |-> FALSE, link |-> None, val1 |-> None, val2 |-> None,
              val3 |-> None]
        ELSE [matched |-> TRUE,
              link |-> IF has_link THEN SubSeq(text, p0 + 1, p1 - 1) ELSE None,
              val1 |-> IF has_val1 THEN SubSeq(text, p1 + 1, p2 - 1) ELSE None,
              val2 |-> g2.val, val3 |-> g3.val]

-----------------------------------------------------------------------------
(* Text search *)

Remove(args, i) == SubSeq(args, 1, i - 1) \o SubSeq(args, i + 1, Len(args))

RECURSIVE permutations(_)
RECURSIVE permutations_from(_, _)
\* itertools.permutations(args, len(args)): every ordering of the positions
\* of the list, equal values in different positions counted apart
permutations(args) ==
    IF Len(args) <= 1 THEN <<args>> ELSE permutations_from(args, 1)

\* the orderings that start with position i, then those of the later positions
permutations_from(args, i) ==
    IF i > Len(args) THEN <<>>
    ELSE LET rest == permutations(Remove(args, i))
         IN  [k \in 1..Len(rest) |-> <<args[i]>> \o rest[k]]
             \o permutations_from(args, i + 1)

\* the if-chain over the patterns with the CRE name tried before the ids
first_pattern_name_first(text) ==
    IF cre_name_search(text).matched THEN "cre_name"
    ELSE IF cre_id_search(text).matched THEN "cre_id"
    ELSE IF cre_naked_id_search(text).matched THEN "cre_naked_id"
    ELSE IF standard_search(text).matched THEN "standard"
    ELSE "fuzzy"

\* text_search, the chain of "match = re.search(...); if match:": the first
\* pattern found in the text
first_pattern(text) ==
    IF cre_id_search(text).matched THEN "cre_id"
    ELSE IF cre_naked_id_search(text).matched THEN "cre_naked_id"
    ELSE IF cre_name_search(text).matched THEN "cre_name"
    ELSE IF standard_search(text).matched THEN "standard"
    ELSE "fuzzy"

\* a call of get_CREs or get_standards as text_search issues it
Lookup(op, filters, partial) == [op |-> op, filters |-> filters, partial |-> partial]

\* list(set(results)): the documents without repetition, in no given order
deduplicated(results) == {results[i] : i \in 1..Len(results)}

RECURSIVE extend_all(_)
\* results.extend(...) for every call that returned documents
extend_all(calls) ==
    IF calls = <<>> THEN <<>>
    ELSE (IF Head(calls).ret = "list" THEN Head(calls).docs ELSE <<>>)
         \o extend_all(Tail(calls))

\* what text_search hands back: the pattern that decided, the returned value
\* or raised exception, the documents, and the lookups it made in order
SearchOutcome(st, pattern, ret, result, lookups) ==
    [st |-> st, pattern |-> pattern, ret |-> ret, result |-> result,
     lookups |-> lookups]

\* the branches of text_search that hand the text to one get_CREs call
search_cres(st, pattern, external_id, name) ==
    LET r == get_CREs(st, external_id, name, None, FALSE)
    IN  SearchOutcome(r.st, pattern, r.ret, r.docs,
                      <<Lookup("get_CREs", [external_id |-> external_id, name |-> name,
                                            description |-> None], FALSE)>>)

\* the Standard branch: get_standards for every ordering of val1, val2, val3
\* as name, section, subsection
search_standards(st, match) ==
    LET combos == permutations(<<match.val1, match.val2, match.val3>>)
        call(k) == get_standards(st, combos[k][1], combos[k][2], combos[k][3],
                                 match.link, None, FALSE)
        calls == [k \in 1..Len(combos) |-> call(k)]
        lookups == [k \in 1..Len(combos) |->
                      Lookup("get_standards",
                             [name |-> combos[k][1], section |-> combos[k][2],
                              subsection |-> combos[k][3], link |-> match.link], FALSE)]
    IN  IF call(1).ret = "ValueError"
        THEN SearchOutcome(st, "standard", "ValueError", {}, SubSeq(lookups, 1, 1))
        ELSE SearchOutcome(st, "standard", "list", deduplicated(extend_all(calls)),
                           lookups)

\* the fuzzy fallback: LIKE %text% in turn on each column of the Standards,
\* then on each column of the CREs
search_fuzzy(st, text) ==
    LET like == "%" \o text \o "%"
        scombos == permutations(<<like, None, None, None>>)
        scalls == [k \in 1..Len(scombos) |->
                     get_standards(st, scombos[k][1], scombos[k][2], scombos[k][3],
                                   scombos[k][4], None, TRUE)]
        ccombos == permutations(<<like, None, None>>)
        ccalls == [k \in 1..Len(ccombos) |->
                     get_CREs(st, ccombos[k][2], ccombos[k][1], ccombos[k][3], TRUE)]
        lookups ==
            [k \in 1..Len(scombos) |->
               Lookup("get_standards",
                      [name |-> scombos[k][1], section |-> scombos[k][2],
                       subsection |-> scombos[k][3], link |-> scombos[k][4]], TRUE)]
            \o [k \in 1..Len(ccombos) |->
                  Lookup("get_CREs",
                         [external_id |-> ccombos[k][2], name |-> ccombos[k][1],
                          description |-> ccombos[k][3]], TRUE)]
    IN  SearchOutcome(st, "fuzzy", "list",
                      deduplicated(extend_all(scalls) \o extend_all(ccalls)), lookups)

\* text_search: the first pattern found in the text decides which lookup is
\* made; its result is handed back as it is
text_search(st, text) ==
    LET pattern == first_pattern(text)
    IN  CASE pattern = "cre_id" ->
               search_cres(st, pattern, cre_id_search(text).id, None)
          [] pattern = "cre_naked_id" ->
               search_cres(st, pattern, cre_naked_id_search(text).group, None)
          [] pattern = "cre_name" ->
               search_cres(st, pattern, None, cre_name_search(text).name)
          [] pattern = "standard" -> search_standards(st, standard_search(text))
          [] OTHER -> search_fuzzy(st, text)

-----------------------------------------------------------------------------
(* Actions *)

Apply(r) ==
    /\ cres' = r.st.cres
    /\ standards' = r.st.standards
    /\ internal_links' = r.st.internal_links
    /\ links' = r.st.links
    /\ graph_nodes' = r.st.graph_nodes
    /\ graph_edges' = r.st.graph_edges
    /\ UNCHANGED in_flight

AddCre ==
    \E cre \in CreDocs :
      \E pick \in PicksOf(Several({r \in cres : Lower(r.name) = Lower(cre.name)})) :
        Apply(add_cre(St, cre, pick))

AddStandard ==
    \E standard \in StdDocs :
      \E pick \in PicksOf(Several({r \in standards : Lower(r.name) = Lower(standard.name)})) :
        Apply(add_standard(St, standard, pick))

\* the CRE / Standard objects a caller can hold: the rows handed back by the
\* entity upserts, and detached ones
CreArgs(st) == st.cres \cup DetachedCres
StandardArgs(st) == st.standards \cup DetachedStandards

NumLinks(st) == Cardinality(st.internal_links) + Cardinality(st.links)

\* the bound on inserted link rows
WithinBound(st, r) == NumLinks(r.st) = NumLinks(st) \/ NumLinks(r.st) <= MaxLinks

AddInternalLink ==
    \E group \in CreArgs(St), cre \in CreArgs(St), type \in LinkTypes :
      \E pick \in PicksOf((group.id = NoId /\ Several(cre_query(St, group)))
                           \/ (cre.id = NoId /\ Several(cre_query(St, cre)))
                           \/ (\E l \in internal_links :
                                 [l EXCEPT !.group = l.cre, !.cre = l.group]
                                     \in internal_links \ {l})) :
        LET r == add_internal_link(St, group, cre, type, pick) IN
        /\ WithinBound(St, r)
        /\ Apply(r)

AddLink ==
    \E cre \in CreArgs(St), standard \in StandardArgs(St), type \in LinkTypes :
      \E pick \in PicksOf(cre.id = NoId /\ Several({r \in cres : r.name = cre.name})) :
        LET r == add_link(St, cre, standard, type, pick) IN
        /\ WithinBound(St, r)
        /\ Apply(r)

\* the filter values and the lists of Standard names handed to the reads
CreFilters ==
    {<<"1", "a", "">>, <<"2", "a", "x">>, <<"", "A", "">>, <<"", "b", "x">>,
     <<"", "", "">>, <<"7", "", "">>}

GapQueries ==
    {<<"s">>, <<"t">>, <<"s", "t">>, <<"t", "s">>, <<"t", "q">>, <<>>}

StandardFilters ==
    {<<"s", "1", "", "", "">>, <<"S", "", "", "", "">>, <<"", "", "", "", "">>,
     <<"q", "", "", "", "">>}

\* the texts handed to text_search
Texts ==
    {"CRE:1-1", "cre 2", "111-111", "CRE:a", "Standard:CRE:a", "Standard:s:1",
     "Standard:t:1:x", "Standard", "s", "x"}

\* the reads: the state after the call is the state the handler leaves
GetCREs ==
    \E f \in CreFilters : Apply(get_CREs(St, f[1], f[2], f[3], FALSE))

GetStandards ==
    \E f \in StandardFilters :
        Apply(get_standards(St, f[1], f[2], f[3], f[4], f[5], FALSE))

TextSearch ==
    \E text \in Texts : Apply(text_search(St, text))

FindCresOfCre ==
    \E cre \in CreArgs(St), binds \in BOOLEAN :
        \E pick \in PicksOf(Several({r \in cres : r.name = cre.name})) :
            Apply(find_cres_of_cre(St, cre, pick, binds))

FindCresOfStandard ==
    \E standard \in StandardArgs(St) :
        Apply(find_cres_of_standard(St, standard, "lo"))

FindPathBetweenStandards ==
    \E a \in standards, b \in standards :
        Apply(find_path_between_standards(St, a.id, b.id))

GapAnalysis ==
    \E names \in GapQueries : Apply(gap_analysis(St, names))

Export == Apply(export(St))

\* __init__: a collection object is constructed over the persisted tables
\* and its mirror is built from the link rows alone
Construct ==
    Apply(Outcome(load_cre_graph(St), "load", "None", "none"))

\* The persisted tables the first collection object is constructed over: two
\* CREs and one Standard registered by an earlier run, no link yet.
SeedCres ==
    { [id |-> 1, name |-> "a", external_id |-> "1", description |-> "x"],
      [id |-> 2, name |-> "a", external_id |-> "2", description |-> "x"] }

SeedStandards ==
    { [id |-> 1, name |-> "s", section |-> "1", subsection |-> "",
       version |-> "", link |-> ""] }

Persisted(cs, ss, ils, ls) ==
    [ cres |-> cs, standards |-> ss, internal_links |-> ils, links |-> ls,
      graph_nodes |-> {}, graph_edges |-> {} ]

InitFrom(db) ==
    LET st == load_cre_graph(db) IN
    /\ cres = st.cres
    /\ standards = st.standards
    /\ internal_links = st.internal_links
    /\ links = st.links
    /\ graph_nodes = st.graph_nodes
    /\ graph_edges = st.graph_edges
    /\ in_flight = Idle

Init == InitFrom(Persisted(SeedCres, SeedStandards, {}, {}))

\* Persisted tables whose link rows already hold a cycle (rows written by
\* hand or by another tool): a self-loop, and a pair linked both ways.
CorruptInternalLinks ==
    { {[type |-> "Contains", cre |-> 1, group |-> 1]},
      {[type |-> "Contains", cre |-> 2, group |-> 1],
       [type |-> "Related", cre |-> 1, group |-> 2]} }

InitCorrupt ==
    \/ Init
    \/ \E ils \in CorruptInternalLinks :
          InitFrom(Persisted(SeedCres, SeedStandards, ils, {}))

\* Persisted tables for the searches: up to three Standards, one of them
\* with a subsection, and any Links rows from the two CREs to them
SearchStandards ==
    SeedStandards \cup
    { [id |-> 2, name |-> "t", section |-> "1", subsection |-> "",
       version |-> "", link |-> ""],
      [id |-> 3, name |-> "t", section |-> "1", subsection |-> "x",
       version |-> "", link |-> ""] }

InitSearch ==
    \E ss \in {{r \in SearchStandards : r.id <= n} : n \in 1..Cardinality(SearchStandards)} :
      \E type \in [{c.id : c \in SeedCres} \X {r.id : r \in ss}
                      -> {""} \cup {value(t) : t \in LinkTypes}] :
        InitFrom(Persisted(SeedCres, ss, {},
                           {[type |-> type[pair], cre |-> pair[1], standard |-> pair[2]] :
                              pair \in {q \in DOMAIN type : type[q] # ""}}))

\* the searches over such tables
NextSearch ==
    \/ GetCREs
    \/ GetStandards
    \/ TextSearch

SpecSearch == InitSearch /\ [][NextSearch]_vars

\* the upserts with a commit that succeeds or raises
AddCreCommitting ==
    \E cre \in CreDocs, commits \in BOOLEAN :
      \E pick \in PicksOf(Several({r \in cres : Lower(r.name) = Lower(cre.name)})) :
        Apply(add_cre_committing(St, cre, pick, commits))

AddStandardCommitting ==
    \E standard \in StdDocs, commits \in BOOLEAN :
      \E pick \in PicksOf(Several({r \in standards : Lower(r.name) = Lower(standard.name)})) :
        Apply(add_standard_committing(St, standard, pick, commits))

\* the bound on inserted link rows and on mirrored edges
WithinBoundCommitting(st, r) ==
    /\ WithinBound(st, r)
    /\ \/ r.st.graph_edges = st.graph_edges
       \/ Cardinality(r.st.graph_edges) <= MaxLinks

AddInternalLinkCommitting ==
    \E group \in CreArgs(St), cre \in CreArgs(St), type \in LinkTypes,
       commits \in BOOLEAN :
      \E pick \in PicksOf((group.id = NoId /\ Several(cre_query(St, group)))
                           \/ (cre.id = NoId /\ Several(cre_query(St, cre)))) :
        LET r == add_internal_link_committing(St, group, cre, type, pick, commits) IN
        /\ WithinBoundCommitting(St, r)
        /\ Apply(r)

AddLinkCommitting ==
    \E cre \in CreArgs(St), standard \in StandardArgs(St), type \in LinkTypes,
       commits \in BOOLEAN :
      \E pick \in PicksOf(cre.id = NoId /\ Several({r \in cres : r.name = cre.name})) :
        LET r == add_link_committing(St, cre, standard, type, pick, commits) IN
        /\ WithinBoundCommitting(St, r)
        /\ Apply(r)

NextCommitting ==
    \/ AddCreCommitting
    \/ AddStandardCommitting
    \/ AddInternalLinkCommitting
    \/ AddLinkCommitting

SpecCommitting == Init /\ [][NextCommitting]_vars

\* Persisted tables for the interleaved callers: three CREs, and possibly one
\* internal link between the first two
InterleavedCres ==
    SeedCres \cup {[id |-> 3, name |-> "b", external_id |-> "", description |-> "x"]}

InterleavedInternalLinks == {[type |-> "Contains", cre |-> 2, group |-> 1]}

InitInterleaved ==
    \E ils \in SUBSET InterleavedInternalLinks :
       InitFrom(Persisted(InterleavedCres, SeedStandards, ils, {}))

\* the unordered pair of rows a link upsert targets
PairOf(call) == {call.group, call.cre}

\* add_internal_link up to the cycle check: a call that finds no row and no
\* cycle is in flight, with its INSERT still to come; any other call returns.
\* No call is issued on a pair of rows that a call in flight targets.
AddInternalLinkCheck ==
    \E caller \in Callers, group \in cres, cre \in cres, type \in LinkTypes :
      LET r == add_internal_link(St, group, cre, type, "lo") IN
      /\ in_flight[caller] = {}
      /\ \A other \in Callers : \A call \in in_flight[other] :
            PairOf(call) # {group.id, cre.id}
      /\ IF r.branch = "added"
         THEN /\ in_flight' = [in_flight EXCEPT ![caller] =
                                 {[group |-> group.id, cre |-> cre.id, type |-> type]}]
              /\ UNCHANGED <<cres, standards, internal_links, links,
                             graph_nodes, graph_edges>>
         ELSE Apply(r)

\* the rest of the call: session.add(InternalLinks(...)), commit, add_edge
AddInternalLinkWrite ==
    \E caller \in Callers :
      \E call \in in_flight[caller] :
        LET after == insert_internal_link(St, call.group, call.cre, call.type) IN
        /\ Cardinality(after.internal_links \ InterleavedInternalLinks) <= MaxLinks
        /\ cres' = after.cres
        /\ standards' = after.standards
        /\ internal_links' = after.internal_links
        /\ links' = after.links
        /\ graph_nodes' = after.graph_nodes
        /\ graph_edges' = after.graph_edges
        /\ in_flight' = [in_flight EXCEPT ![caller] = {}]

NextInterleaved == AddInternalLinkCheck \/ AddInternalLinkWrite

SpecInterleaved == InitInterleaved /\ [][NextInterleaved]_vars

Next ==
    \/ AddCre
    \/ AddStandard
    \/ AddInternalLink
    \/ AddLink
    \/ Construct
    \/ GetCREs
    \/ GetStandards
    \/ TextSearch
    \/ FindCresOfCre
    \/ FindCresOfStandard
    \/ FindPathBetweenStandards
    \/ GapAnalysis
    \/ Export

Spec == Init /\ [][Next]_vars

\* the same handlers over tables that may already hold a cycle
SpecCorrupt == InitCorrupt /\ [][Next]_vars

-----------------------------------------------------------------------------
(* Properties *)

\* the directed graph the persisted link rows form: group -> cre for each
\* InternalLinks row, cre -> standard for each Links row
StoreEdges(st) ==
    {<<CreNode(il.group), CreNode(il.cre)>> : il \in st.internal_links}
    \cup {<<CreNode(lnk.cre), StdNode(lnk.standard)>> : lnk \in st.links}

\* some node reaches itself along one or more edges
HasCycle(edges) == \E p \in Closure(edges) : p[1] = p[2]

\* the InternalLinks rows between two CRE rows, in either orientation
RowsBetween(st, a, b) ==
    {l \in st.internal_links : \/ l.group = a.id /\ l.cre = b.id
                               \/ l.group = b.id /\ l.cre = a.id}

\* the Links rows from a CRE row to a Standard row
RowsTo(st, c, s) == {l \in st.links : l.cre = c.id /\ l.standard = s.id}

LinkKeys(st) ==
    [ internal |-> {<<l.group, l.cre>> : l \in st.internal_links},
      external |-> {<<l.cre, l.standard>> : l \in st.links} ]

Mirror(st) == <<st.graph_nodes, st.graph_edges>>

\* C1: after any sequence of add_cre, add_standard, add_internal_link and
\* add_link calls from acyclic tables, neither the mirror nor the graph of the
\* persisted InternalLinks and Links rows has a cycle or a self-loop.
C1_Acyclic ==
    /\ ~HasCycle(graph_edges)
    /\ ~HasCycle(StoreEdges(St))

\* two accepted internal links form a chain, and the link that would close it
\* into a cycle is on offer and refused
C1_Witness ==
    \E l1, l2 \in internal_links, g \in cres, c \in cres :
        /\ l1.cre = l2.group /\ l1.group # l2.cre
        /\ g.id = l2.cre /\ c.id = l1.group
        /\ add_internal_link(St, g, c, "Contains", "lo").branch = "cycle"

\* C2: a link upsert for a pair with no link whose candidate edge would close
\* a cycle in the mirror leaves the mirror's nodes and edges and every table
\* as they were.
C2_CycleRejectedUnchanged ==
    /\ \A g \in cres, c \in cres, type \in LinkTypes, pick \in Picks :
         ( /\ RowsBetween(St, g, c) = {}
           /\ HasCycle(graph_edges \cup {<<CreNode(g.id), CreNode(c.id)>>}) )
         => add_internal_link(St, g, c, type, pick).st = St
    /\ \A c \in cres, s \in standards, type \in LinkTypes, pick \in Picks :
         ( /\ RowsTo(St, c, s) = {}
           /\ HasCycle(graph_edges \cup {<<CreNode(c.id), StdNode(s.id)>>}) )
         => add_link(St, c, s, type, pick).st = St

\* a link between two different CREs that have none, over an acyclic
\* mirror, whose edge would close a cycle, and the upsert is skipped
C2_Witness ==
    \E g \in cres, c \in cres :
        /\ g.id # c.id
        /\ RowsBetween(St, g, c) = {}
        /\ ~HasCycle(graph_edges)
        /\ HasCycle(graph_edges \cup {<<CreNode(g.id), CreNode(c.id)>>})
        /\ add_internal_link(St, g, c, "Contains", "lo").log = "warning"

C4_RetypeChangesOnlyType ==
    /\ \A g \in cres, c \in cres, type \in LinkTypes, pick \in Picks :
         LET rows == RowsBetween(St, g, c)
             r == add_internal_link(St, g, c, type, pick)
         IN  (rows # {} /\ \A e \in rows : e.type # value(type)) =>
               /\ \E e \in rows :
                    r.st = [St EXCEPT !.internal_links =
                              (internal_links \ {e}) \cup {[e EXCEPT !.type = value(type)]}]
               /\ r.st.internal_links # internal_links
               /\ LinkKeys(r.st) = LinkKeys(St)
               /\ Cardinality(r.st.internal_links) = Cardinality(internal_links)
               /\ Mirror(r.st) = Mirror(St)
               /\ r.ret = "None"
    /\ \A c \in cres, s \in standards, type \in LinkTypes, pick \in Picks :
         LET rows == RowsTo(St, c, s)
             r == add_link(St, c, s, type, pick)
         IN  (rows # {} /\ \A e \in rows : e.type # value(type)) =>
               /\ \E e \in rows :
                    r.st = [St EXCEPT !.links =
                              (links \ {e}) \cup {[e EXCEPT !.type = value(type)]}]
               /\ r.st.links # links
               /\ LinkKeys(r.st) = LinkKeys(St)
               /\ Cardinality(r.st.links) = Cardinality(links)
               /\ Mirror(r.st) = Mirror(St)
               /\ r.ret = "None"

\* an internal and an external link row for each of which another type is
\* on offer, and the upsert offering it takes the re-typing branch
C4_Witness ==
    /\ \E g \in cres, c \in cres, type \in LinkTypes :
         /\ \E e \in RowsBetween(St, g, c) : e.type # value(type)
         /\ add_internal_link(St, g, c, type, "lo").branch = "retyped"
    /\ \E c \in cres, s \in standards, type \in LinkTypes :
         /\ \E e \in RowsTo(St, c, s) : e.type # value(type)
         /\ add_link(St, c, s, type, "lo").branch = "retyped"

\* how often a link stands in a document's link list
Count(list, link) == Cardinality({i \in 1..Len(list) : list[i] = link})

\* the link list get_CREs shows for one CRE row, asked for by the row's own
\* external id, name and description
LinksOf(st, dbcre) ==
    LET r == get_CREs(st, dbcre.external_id, dbcre.name, dbcre.description, FALSE)
        i == CHOOSE i \in 1..Len(r.docs) : r.docs[i].cre = CREfromDB(dbcre)
    IN  r.docs[i].links

\* C5: for every persisted internal link (group G, member M, type T),
\* get_CREs on M shows exactly one link to G, of type PartOf when T is
\* Contains and of type T otherwise, and get_CREs on G shows exactly one
\* link to M of type T; a CRE's list holds as many links to CREs as there
\* are internal link rows touching the CRE.
C5_LinkDirectionRule ==
    /\ \A il \in internal_links :
         LET G == RowById(cres, il.group)
             M == RowById(cres, il.cre)
             T == from_str(il.type)
         IN  /\ get_CREs(St, M.external_id, M.name, M.description, FALSE).ret = "list"
             /\ get_CREs(St, G.external_id, G.name, G.description, FALSE).ret = "list"
             /\ Count(LinksOf(St, M),
                      Link(IF T = "Contains" THEN "PartOf" ELSE T, CREfromDB(G))) = 1
             /\ Count(LinksOf(St, G), Link(T, CREfromDB(M))) = 1
    /\ \A X \in cres :
         LET ls == LinksOf(St, X)
         IN  Cardinality({i \in 1..Len(ls) : ls[i].document.doctype = "CRE"})
               = Cardinality({il \in internal_links : il.group = X.id \/ il.cre = X.id})

\* a Contains row and a row of another type are persisted, and the member of
\* the Contains row is shown a PartOf link to the group
C5_Witness ==
    /\ \E il \in internal_links : il.type # value("Contains")
    /\ \E il \in internal_links :
         /\ il.type = value("Contains")
         /\ Count(LinksOf(St, RowById(cres, il.cre)),
                  Link("PartOf", CREfromDB(RowById(cres, il.group)))) = 1

\* two Standard rows joined by a path of the mirror taken as undirected
Connected(st, a, b) ==
    <<StdNode(a.id), StdNode(b.id)>> \in
        Closure(st.graph_edges \cup {<<e[2], e[1]>> : e \in st.graph_edges})

\* C6: gap_analysis over a list of Standard names returns one document per
\* Standard row whose name is in the list; the document of S holds one
\* LinkedTo link to each other returned S' that a path of the undirected
\* mirror connects to S, and nothing else, so none when S is connected to
\* none of the others.
C6_GapAnalysisLinksConnected ==
    \A names \in GapQueries :
        LET r == gap_analysis(St, names)
            found == {row \in standards : \E k \in 1..Len(names) : names[k] = row.name}
        IN  /\ r.ret = "list"
            /\ Len(r.docs) = Cardinality(found)
            /\ \A S \in found :
                 \E i \in 1..Len(r.docs) :
                    /\ r.docs[i].standard = StandardFromDB(S)
                    /\ \A S2 \in found :
                         Count(r.docs[i].links, Link("LinkedTo", StandardFromDB(S2)))
                           = IF S2.id # S.id /\ Connected(St, S, S2) THEN 1 ELSE 0
                    /\ Len(r.docs[i].links)
                         = Cardinality({S2 \in found : S2.id # S.id /\ Connected(St, S, S2)})

\* C7: running add_cre, add_standard, add_internal_link or add_link a second
\* time with the arguments of the first call, the store answering its
\* queries as it did the first time, leaves the tables and the mirror as the
\* first call left them.
C7_UpsertTwiceIsUpsertOnce ==
    \A pick \in Picks :
      /\ \A cre \in CreDocs :
           LET r == add_cre(St, cre, pick) IN add_cre(r.st, cre, pick).st = r.st
      /\ \A standard \in StdDocs :
           LET r == add_standard(St, standard, pick)
           IN  add_standard(r.st, standard, pick).st = r.st
      /\ \A group \in CreArgs(St), cre \in CreArgs(St), type \in LinkTypes :
           LET r == add_internal_link(St, group, cre, type, pick)
           IN  add_internal_link(r.st, group, cre, type, pick).st = r.st
      /\ \A cre \in CreArgs(St), standard \in StandardArgs(St), type \in LinkTypes :
           LET r == add_link(St, cre, standard, type, pick)
           IN  add_link(r.st, cre, standard, type, pick).st = r.st

\* each of the four upserts has arguments with which the first call writes
\* (inserts a row, or re-types one) and the second call finds what it wrote
C7_Witness ==
    /\ links # {}
    /\ \E cre \in CreDocs :
         LET r == add_cre(St, cre, "lo")
         IN  r.st # St /\ add_cre(r.st, cre, "lo").branch = "knew"
    /\ \E standard \in StdDocs :
         LET r == add_standard(St, standard, "lo")
         IN  r.st # St /\ add_standard(r.st, standard, "lo").branch = "knew"
    /\ \E group \in cres, cre \in cres, type \in LinkTypes :
         LET r == add_internal_link(St, group, cre, type, "lo")
         IN  /\ r.branch = "added"
             /\ add_internal_link(r.st, group, cre, type, "lo").branch = "retyped"
    /\ \E cre \in cres, standard \in standards, type \in LinkTypes :
         LET r == add_link(St, cre, standard, type, "lo")
         IN  /\ r.branch = "retyped" /\ r.st # St
             /\ add_link(r.st, cre, standard, type, "lo").branch = "retyped"

\* C8: a link upsert with an endpoint that resolves to no row is given up as
\* a failure (a fatal log entry or a raised error) and writes nothing: no
\* link row is added or re-typed and the mirror is as it was.
C8_UnresolvedEndpointWritesNothing ==
    /\ \A d \in DetachedCres, x \in CreArgs(St), type \in LinkTypes, pick \in Picks :
         (\A row \in cres :
             IF d.external_id = None
             THEN <<row.name, row.description>> # <<d.name, d.description>>
             ELSE <<row.name, row.external_id>> # <<d.name, d.external_id>>) =>
           \A r \in {add_internal_link(St, d, x, type, pick),
                     add_internal_link(St, x, d, type, pick)} :
             /\ r.st = St
             /\ r.log = "fatal" \/ r.ret # "None"
    /\ \A d \in DetachedCres, x \in StandardArgs(St), type \in LinkTypes, pick \in Picks :
         (\A row \in cres : row.name # d.name) =>
           LET r == add_link(St, d, x, type, pick) IN
             /\ r.st = St
             /\ r.log = "fatal" \/ r.ret # "None"
    /\ \A d \in DetachedStandards, x \in CreArgs(St), type \in LinkTypes, pick \in Picks :
         (\A row \in standards :
             <<row.name, row.section, row.subsection, row.version>>
                 # <<d.name, d.section, d.subsection, d.version>>) =>
           LET r == add_link(St, x, d, type, pick) IN
             /\ r.st = St
             /\ r.log = "fatal" \/ r.ret # "None"

\* links exist that could be re-typed, and link upserts are on offer whose
\* CRE, or whose Standard, resolves to no row
C8_Witness ==
    /\ internal_links # {} /\ links # {}
    /\ \E d \in DetachedCres, x \in cres :
         add_internal_link(St, x, d, "Contains", "lo").branch = "not_found"
    /\ \E d \in DetachedStandards, x \in cres :
         add_link(St, x, d, "Contains", "lo").branch = "not_found"

\* C9: while the live mirror holds a cycle, every link upsert for a pair
\* that has no link yet is refused with an error, whatever the candidate
\* edge, and leaves the tables and the mirror as they were.
C9_CorruptMirrorRefusesNewEdges ==
    HasCycle(graph_edges) =>
      /\ \A g \in cres, c \in cres, type \in LinkTypes, pick \in Picks :
           RowsBetween(St, g, c) = {} =>
             LET r == add_internal_link(St, g, c, type, pick) IN
               r.st = St /\ r.ret = "ValueError"
      /\ \A c \in cres, s \in standards, type \in LinkTypes, pick \in Picks :
           RowsTo(St, c, s) = {} =>
             LET r == add_link(St, c, s, type, pick) IN
               r.st = St /\ r.ret = "ValueError"

\* the mirror holds a cycle and link upserts for pairs without a link are
\* on offer: each raises
C9_Witness ==
    /\ HasCycle(graph_edges)
    /\ \E g \in cres, c \in cres :
         /\ RowsBetween(St, g, c) = {}
         /\ add_internal_link(St, g, c, "Contains", "lo").branch = "corrupt_graph"
    /\ \E c \in cres, s \in standards :
         /\ RowsTo(St, c, s) = {}
         /\ add_link(St, c, s, "Contains", "lo").branch = "corrupt_graph"

\* what the caller of a link upsert observes when the pair has no link and
\* the candidate edge alone would close a cycle in an acyclic mirror
CycleRefusals ==
    {add_internal_link(St, g, c, type, pick) :
        <<g, c, type, pick>> \in
          {a \in cres \X cres \X LinkTypes \X Picks :
              /\ RowsBetween(St, a[1], a[2]) = {}
              /\ ~HasCycle(graph_edges)
              /\ HasCycle(graph_edges
                          \cup {<<CreNode(a[1].id), CreNode(a[2].id)>>})}}

\* and when the link is accepted
Acceptances ==
    {add_internal_link(St, g, c, type, pick) :
        <<g, c, type, pick>> \in
          {a \in cres \X cres \X LinkTypes \X Picks :
              /\ RowsBetween(St, a[1], a[2]) = {}
              /\ ~HasCycle(graph_edges
                           \cup {<<CreNode(a[1].id), CreNode(a[2].id)>>})}}

CreLookup(external_id, name) ==
    Lookup("get_CREs",
           [external_id |-> external_id, name |-> name, description |-> None], FALSE)

UnionOverTokens(st, tokens) ==
    LET combos == permutations(tokens)
        call(k) == get_standards(st, combos[k][1], combos[k][2], combos[k][3],
                                 None, None, FALSE)
    IN  UNION {IF call(k).ret = "list"
               THEN {call(k).docs[i] : i \in 1..Len(call(k).docs)} ELSE {} :
               k \in 1..Len(combos)}

\* C12: for the text "Standard:t:1:x", with the three tokens t, 1 and x after
\* the keyword, text_search asks the Standard store once for every
\* assignment of the three tokens to (name, section, subsection) and returns
\* the deduplicated union of what these lookups find.
C12_StandardTokensPermuted ==
    LET r == text_search(St, "Standard:t:1:x")
        combos == permutations(<<"t", "1", "x">>)
    IN  /\ r.ret = "list"
        /\ r.result = UnionOverTokens(St, <<"t", "1", "x">>)
        /\ Len(r.lookups) = Len(combos)
        /\ \A k \in 1..Len(combos) :
             \E j \in 1..Len(r.lookups) :
                /\ r.lookups[j].filters.name = combos[k][1]
                /\ r.lookups[j].filters.section = combos[k][2]
                /\ r.lookups[j].filters.subsection = combos[k][3]

\* the CRE rows that an InternalLinks row names as group of the row c
GroupsOf(st, c) ==
    {g \in st.cres : \E l \in st.internal_links : l.group = g.id /\ l.cre = c.id}

\* C13: find_cres_of_cre(c), for a CRE row c, returns exactly the CREs g with
\* a persisted internal link (group g, member c), also when other CRE rows
\* have c's name, and None when there is no such link (taking the driver to
\* accept the id row as the id).
C13_GroupsOfThePassedCre ==
    \A c \in cres :
      \A pick \in PicksOf(Several({r \in cres : r.name = c.name})) :
        LET r == find_cres_of_cre(St, c, pick, TRUE)
        IN  IF GroupsOf(St, c) = {} THEN r.ret = "None"
            ELSE /\ r.ret = "list"
                 /\ {r.docs[i] : i \in 1..Len(r.docs)} = GroupsOf(St, c)

\* the versions and descriptions a repeated entity upsert may come with
Versions == {"", "2"}
Descriptions == {"x", "y"}

\* C14: no two Standard rows share (name, section, subsection), and
\* add_standard called with the triple of an existing row, whatever the
\* version, resolves to that row instead of attempting an INSERT.
C14_StandardKeyedByTriple ==
    /\ \A r1 \in standards, r2 \in standards :
         ( r1.name = r2.name /\ r1.section = r2.section
           /\ r1.subsection = r2.subsection ) => r1 = r2
    /\ \A row \in standards, version \in Versions :
         LET r == add_standard(St, [name |-> row.name, section |-> row.section,
                                    subsection |-> row.subsection,
                                    version |-> version, hyperlink |-> row.link], "lo")
         IN  /\ r.branch = "knew"
             /\ r.ret = "entry"
             /\ r.st = St

\* C15: no two CRE rows share (name, external_id), and add_cre called with
\* the pair of an existing row, whatever the description and also when the
\* external id is empty, resolves to that row instead of attempting an
\* INSERT.
C15_CreKeyedByPair ==
    /\ \A r1 \in cres, r2 \in cres :
         (r1.name = r2.name /\ r1.external_id = r2.external_id) => r1 = r2
    /\ \A row \in cres, description \in Descriptions :
         LET r == add_cre(St, [name |-> row.name, id |-> row.external_id,
                               description |-> description], "lo")
         IN  /\ r.branch = "knew"
             /\ r.ret = "entry"
             /\ r.st.cres = cres

\* the persisted link rows and the mirror
LinksAndMirror(st) ==
    <<st.internal_links, st.links, st.graph_nodes, st.graph_edges>>

\* C16: get_CREs, get_standards, find_cres_of_cre, find_cres_of_standard,
\* find_path_between_standards, gap_analysis and text_search leave the
\* mirror's nodes and edges and the persisted link rows as they were;
\* gap_analysis adds no LinkedTo edge or row.
C16_ReadsLeaveLinksAndMirror ==
    /\ \A f \in CreFilters, partial \in BOOLEAN :
         LinksAndMirror(get_CREs(St, f[1], f[2], f[3], partial).st) = LinksAndMirror(St)
    /\ \A f \in StandardFilters, partial \in BOOLEAN :
         LinksAndMirror(get_standards(St, f[1], f[2], f[3], f[4], f[5], partial).st)
           = LinksAndMirror(St)
    /\ \A cre \in CreArgs(St), pick \in Picks, binds \in BOOLEAN :
         LinksAndMirror(find_cres_of_cre(St, cre, pick, binds).st) = LinksAndMirror(St)
    /\ \A standard \in StandardArgs(St), pick \in Picks :
         LinksAndMirror(find_cres_of_standard(St, standard, pick).st) = LinksAndMirror(St)
    /\ \A a \in standards, b \in standards :
         LinksAndMirror(find_path_between_standards(St, a.id, b.id).st)
           = LinksAndMirror(St)
    /\ \A names \in GapQueries :
         LET after == gap_analysis(St, names).st
         IN  /\ LinksAndMirror(after) = LinksAndMirror(St)
             /\ \A l \in after.links \cup after.internal_links :
                  l.type # value("LinkedTo")
    /\ \A text \in Texts :
         LinksAndMirror(text_search(St, text).st) = LinksAndMirror(St)

\* gap_analysis finds two Standards connected and hands back a LinkedTo
\* link, and text_search hands back a document with a link
C16_Witness ==
    /\ \E names \in GapQueries :
         LET r == gap_analysis(St, names)
         IN  /\ r.ret = "list"
             /\ \E i \in 1..Len(r.docs) :
                  \E k \in 1..Len(r.docs[i].links) :
                     r.docs[i].links[k].ltype = "LinkedTo"
    /\ \E text \in Texts :
         LET r == text_search(St, text)
         IN  /\ r.ret = "list" /\ r.pattern = "fuzzy"
             /\ \E d \in r.result : d.links # <<>>

\* the values of a filter argument that give no filter
Empty == {"", None}

\* C17: a Standard lookup with every one of name, section, subsection, link
\* and version empty, and a CRE lookup with external_id, name and
\* description all empty, is refused at once (ValueError, and None with an
\* error logged) and no query is executed against the store.
C17_EmptyQueryRefusedUnqueried ==
    \A partial \in BOOLEAN :
      /\ \A name \in Empty, section \in Empty, subsection \in Empty,
            link \in Empty, version \in Empty :
           LET r == get_standards(St, name, section, subsection, link, version, partial)
           IN  r.ret = "ValueError" /\ r.queries = 0 /\ r.docs = <<>>
      /\ \A external_id \in Empty, name \in Empty, description \in Empty :
           LET r == get_CREs(St, external_id, name, description, partial)
           IN  r.ret = "None" /\ r.log = "error" /\ r.queries = 0 /\ r.docs = <<>>

\* the tables hold CREs and Standards with links, which a lookup with a
\* filter finds with queries to the store, while the empty lookups are refused
C17_Witness ==
    /\ links # {}
    /\ \E c \in cres :
         LET r == get_CREs(St, c.external_id, c.name, "", FALSE)
         IN  r.ret = "list" /\ r.queries > 1
    /\ \E row \in standards :
         LET r == get_standards(St, row.name, "", "", "", "", FALSE)
         IN  r.ret = "list" /\ r.queries > 1
    /\ get_standards(St, "", None, "", None, "", FALSE).ret = "ValueError"
    /\ get_CREs(St, None, "", None, FALSE).log = "error"

\* the mirror nodes and edges that the committed rows stand for
StoreNodes(st) ==
    {CreNode(r.id) : r \in st.cres} \cup {StdNode(r.id) : r \in st.standards}

\* C18: in add_internal_link, add_link, add_cre and add_standard the mirror
\* is updated only after the row has been committed, so whether a commit
\* succeeds or raises, the mirror never holds a node or an edge whose row is
\* not committed.
C18_MirrorNeverAheadOfStore ==
    /\ graph_nodes \subseteq StoreNodes(St)
    /\ graph_edges \subseteq StoreEdges(St)

\* C19: two callers whose add_internal_link calls target different pairs of
\* CREs and interleave (each passes the cycle check before either inserts)
\* leave the mirror and the persisted links acyclic once both have returned.
C19_InterleavedUpsertsStayAcyclic ==
    (\A caller \in Callers : in_flight[caller] = {})
        => /\ ~HasCycle(graph_edges)
           /\ ~HasCycle(StoreEdges(St))

\* C20: find_path_between_standards(A, B) over two persisted Standards
\* returns a boolean and never raises: true exactly when a path of the
\* undirected mirror connects the two nodes, false when none does, also for a
\* Standard without a link after the mirror was loaded from the tables.
C20_PathQueryAnswersFalseWithoutPath ==
    \A a \in standards : \A b \in standards \ {a} :
      LET r == find_path_between_standards(St, a.id, b.id) IN
      /\ r.ret = "bool"
      /\ r.res = Connected(St, a, b)

\* C21: the mirror the startup load builds has exactly one edge group->member
\* per InternalLinks row and one edge cre->standard per Links row and exactly
\* the nodes those rows reference; after any sequence of upserts it has the
\* edges of the live mirror and gives the same answer as the live mirror to
\* find_path_between_standards for every pair of persisted Standards.
C21_LoadedMirrorAnswersAsLive ==
    LET loaded == load_cre_graph(St) IN
    /\ loaded.graph_edges = StoreEdges(St)
    /\ loaded.graph_nodes = {e[1] : e \in StoreEdges(St)} \cup {e[2] : e \in StoreEdges(St)}
    /\ loaded.graph_edges = graph_edges
    /\ \A a \in standards : \A b \in standards \ {a} :
         LET live == find_path_between_standards(St, a.id, b.id)
             reloaded == find_path_between_standards(loaded, a.id, b.id)
         IN  /\ reloaded.ret = live.ret
             /\ reloaded.res = live.res

\* C22: there is at most one InternalLinks row between any two CREs, in
\* either orientation; add_internal_link(group A, member B) over a row
\* (group B, member A) re-types that row in place, keeps B as its group, adds
\* no second row and no edge to the mirror.
C22_OneRowPerPairEitherWay ==
    /\ \A a \in cres, b \in cres : Cardinality(RowsBetween(St, a, b)) <= 1
    /\ \A a \in cres, b \in cres, type \in LinkTypes, pick \in Picks :
         \A e \in internal_links :
           (e.group = b.id /\ e.cre = a.id) =>
             LET r == add_internal_link(St, a, b, type, pick) IN
             /\ r.st.internal_links =
                  (internal_links \ {e}) \cup
                     {[type |-> value(type), group |-> b.id, cre |-> a.id]}
             /\ Mirror(r.st) = Mirror(St)
             /\ <<CreNode(a.id), CreNode(b.id)>> \notin r.st.graph_edges

\* a row (group B, member A) of one type, and add_internal_link(A, B) with
\* another type takes the re-typing branch
C22_Witness ==
    \E a \in cres, b \in cres, type \in LinkTypes :
      /\ \E e \in internal_links :
            e.group = b.id /\ e.cre = a.id /\ e.type # value(type)
      /\ add_internal_link(St, a, b, type, "lo").branch = "retyped"

\* C23: every step of every operation of a collection object keeps each
\* mirror node, each mirror edge and each (group, cre) / (cre, standard) key
\* of the persisted link rows: the four sets only grow, a link row can only
\* change its type.  (Constructing a collection anew over the same tables
\* keeps the edges and the keys, and starts from the nodes the rows name.)
C23_MirrorAndLinksOnlyGrow ==
    [][/\ graph_edges \subseteq graph_edges'
       /\ LinkKeys(St).internal \subseteq {<<l.group, l.cre>> : l \in internal_links'}
       /\ LinkKeys(St).external \subseteq {<<l.cre, l.standard>> : l \in links'}
       /\ Cardinality(internal_links) <= Cardinality(internal_links')
       /\ Cardinality(links) <= Cardinality(links')
       /\ \/ graph_nodes \subseteq graph_nodes'
          \/ graph_nodes' = load_cre_graph(St).graph_nodes]_vars

\* link rows of both kinds with a mirror that holds their edges, one of them
\* about to be re-typed
C23_Witness ==
    /\ internal_links # {}
    /\ links # {}
    /\ graph_edges = StoreEdges(St)
    /\ \E c \in cres, s \in standards, type \in LinkTypes :
         add_link(St, c, s, type, "lo").branch = "retyped"

\* a CRE object that carries the name, external id and description of a row
\* and no row id
Detached(row) ==
    [id |-> NoId, name |-> row.name, external_id |-> row.external_id,
     description |-> row.description]

\* C24: add_link given a CRE object without row id resolves it by the key
\* add_internal_link uses, (name, external id) or (name, description): when
\* that key names one row, the link row written is a link of that row, also
\* when other CRE rows have the same name.
C24_LinkResolvesCreAsInternalLinkDoes ==
    \A c \in cres, s \in standards, type \in LinkTypes, pick \in Picks :
      LET r == add_link(St, Detached(c), s, type, pick) IN
      (cre_query(St, Detached(c)) = {c} /\ r.branch \in {"added", "retyped"}) =>
         /\ \E l \in r.st.links :
               l.cre = c.id /\ l.standard = s.id /\ l.type = value(type)
         /\ \A l \in r.st.links \ links : l.cre = c.id

\* the members of cre_defs.LinkTypes, any of which a caller may pass as type
AllLinkTypes == {"Same", "Contains", "PartOf", "Related", "LinkedTo"}

\* C25: no persisted InternalLinks or Links row has the type LinkedTo, in
\* the current tables and in the tables any add_internal_link or add_link
\* call leaves, whichever member of LinkTypes the call passes.
C25_LinkedToNeverPersisted ==
    /\ \A l \in internal_links \cup links : l.type # value("LinkedTo")
    /\ \A g \in cres, c \in cres, type \in AllLinkTypes, pick \in Picks :
         \A l \in add_internal_link(St, g, c, type, pick).st.internal_links :
            l.type # value("LinkedTo")
    /\ \A c \in cres, s \in standards, type \in AllLinkTypes, pick \in Picks :
         \A l \in add_link(St, c, s, type, pick).st.links :
            l.type # value("LinkedTo")

\* the links of a document as a set
LinkSet(doc) == {doc.links[i] : i \in 1..Len(doc.links)}

\* C26: export shows internal links by the rule of get_CREs: for every
\* persisted row (group G, member M, Contains) the exported document of M
\* has a PartOf link to G and that of G a Contains link to M, and for every
\* linked CRE whose name no other CRE row has, the links of its exported
\* document are those get_CREs reports for it.
C26_ExportShowsLinksAsGetCREs ==
    LET docs == export(St).docs IN
    /\ \A il \in internal_links :
         LET G == RowById(cres, il.group)
             M == RowById(cres, il.cre)
         IN  from_str(il.type) = "Contains" =>
               /\ Link("PartOf", CREfromDB(G)) \in LinkSet(docs[M.name])
               /\ Link("Contains", CREfromDB(M)) \in LinkSet(docs[G.name])
    /\ \A c \in cres :
         (c.name \in DOMAIN docs /\ \A o \in cres \ {c} : o.name # c.name) =>
            LinkSet(docs[c.name]) = LinkSet([links |-> LinksOf(St, c)])

\* C27: text_search hands back a list, possibly empty, or None for every
\* text and raises for none; so for the text "Standard", which matches the
\* Standard pattern with no URL and no token, the result is empty.
C27_TextSearchNeverRaises ==
    \A text \in Texts :
      LET r == text_search(St, text) IN
      /\ r.ret \in {"list", "None"}
      /\ (first_pattern(text) = "standard"
            /\ standard_search(text).link = None
            /\ standard_search(text).val1 = None) => (r.ret = "list" /\ r.result = {})

\* C28: every edge of the mirror leaves a CRE node, so a Standard node has
\* out-degree 0, and no CRE key equals a Standard key, also for equal ids;
\* hence, the mirror being acyclic, add_link for a CRE row and a Standard
\* row without a Links row yet is never refused by the cycle check: it
\* inserts the row and the edge.
C28_StandardsAreSinks ==
    /\ \A e \in graph_edges : e[1][1] = "CRE"
    /\ \A s \in standards : \A e \in graph_edges : e[1] # StdNode(s.id)
    /\ \A c \in cres, s \in standards : CreNode(c.id) # StdNode(s.id)
    /\ \A c \in cres, s \in standards, type \in LinkTypes, pick \in Picks :
         RowsTo(St, c, s) = {} =>
           LET r == add_link(St, c, s, type, pick) IN
           /\ r.branch = "added"
           /\ r.st.links = links \cup {[type |-> value(type), cre |-> c.id,
                                        standard |-> s.id]}
           /\ <<CreNode(c.id), StdNode(s.id)>> \in r.st.graph_edges

\* a Standard with a link, a CRE that is a member of a group, and no Links
\* row yet between that CRE and that Standard, whose ids are equal
C28_Witness ==
    \E c \in cres, s \in standards :
      /\ c.id = s.id
      /\ RowsTo(St, c, s) = {}
      /\ \E l \in links : l.standard = s.id
      /\ \E il \in internal_links : il.cre = c.id
      /\ add_link(St, c, s, "Contains", "lo").branch = "added"

\* the answer of find_path_between_standards for two Standard rows
Path(st, a, b) == find_path_between_standards(st, a.id, b.id)

\* the Standard rows whose node the mirror holds
Present == {s \in standards : StdNode(s.id) \in graph_nodes}

\* C29: on the Standards whose node is in the mirror,
\* find_path_between_standards answers with a boolean that is symmetric
\* (path(A, B) = path(B, A)) and transitive; and in a result of gap_analysis
\* the document of S has a LinkedTo link to S' exactly when that of S' has
\* one to S.
C29_ConnectivityIsAnEquivalence ==
    /\ \A a \in Present, b \in Present :
         /\ Path(St, a, b).ret = "bool"
         /\ Path(St, a, b).res = Path(St, b, a).res
    /\ \A a \in Present, b \in Present, c \in Present :
         (Path(St, a, b).res /\ Path(St, b, c).res) => Path(St, a, c).res
    /\ \A names \in GapQueries :
         LET r == gap_analysis(St, names) IN
         r.ret = "list" =>
           \A i \in 1..Len(r.docs), j \in 1..Len(r.docs) :
              Link("LinkedTo", r.docs[j].standard) \in LinkSet(r.docs[i])
                <=> Link("LinkedTo", r.docs[i].standard) \in LinkSet(r.docs[j])

\* three Standards in the mirror, the first connected to the second and the
\* second to the third through different CREs, and a gap_analysis result
\* with a LinkedTo link
C29_Witness ==
    /\ \E a \in Present : \E b \in Present \ {a} : \E c \in Present \ {a, b} :
         /\ \E l \in links : l.standard = a.id /\ [l EXCEPT !.standard = b.id] \in links
                             /\ [l EXCEPT !.standard = c.id] \notin links
         /\ Path(St, a, b).res /\ Path(St, b, c).res /\ Path(St, a, c).res
    /\ \E names \in GapQueries :
         LET r == gap_analysis(St, names) IN
         /\ r.ret = "list"
         /\ \E i \in 1..Len(r.docs) : r.docs[i].links # <<>>

====
